---- MODULE Spec2Model ----
(***************************************************************************)
(* A model of the path tracer: vector algebra, intervals, sphere           *)
(* intersection, the hittable list, materials and the camera.              *)
(*                                                                         *)
(* The program computes in f64.  The model computes in fixed point: a real *)
(* x is the integer x * Scale, products and quotients are rounded toward   *)
(* zero (sign-symmetric, like IEEE rounding), sums and negations are       *)
(* exact.  INFINITY is a value above every finite value the model reaches. *)
(* An Option is a sequence of length 0 (None) or 1 (Some).                 *)
(***************************************************************************)
EXTENDS Integers, Sequences, FiniteSets, TLC

\* ------------------------------------------------------------------ bounds
\* Fixed-point resolution: units per 1.0.
Scale == 1000
\* Longest list of surfaces the scene builder adds.
MaxObjects == 3
\* Number of grid points a random draw from [min, max) is taken from.
RandomGrid == 4
\* Widest image rendered, most samples per pixel, deepest configured bounce limit.
MaxWidth == 2
MaxSamples == 2
MaxDepth == 2

\* ------------------------------------------------------- f64 as fixed point
None == <<>>
Some(x) == <<x>>

Abs(x) == IF x < 0 THEN -x ELSE x
Sgn(x) == IF x < 0 THEN -1 ELSE IF x > 0 THEN 1 ELSE 0

\* The literal n/d.
Fx(n, d) == (n * Scale) \div d

\* a * b
fmul(a, b) ==
    LET q == Abs(a) \div Scale
        r == Abs(a) % Scale
    IN  Sgn(a) * Sgn(b) * (q * Abs(b) + (r * Abs(b)) \div Scale)

\* a / b for b # 0
fdiv(a, b) ==
    LET q == Abs(a) \div Abs(b)
        r == Abs(a) % Abs(b)
    IN  Sgn(a) * Sgn(b) * (q * Scale + (r * Scale) \div Abs(b))

RECURSIVE isqrt_between(_, _, _)
isqrt_between(n, lo, hi) ==
    IF hi - lo <= 1 THEN lo
    ELSE LET mid == (lo + hi) \div 2
         IN  IF mid * mid <= n THEN isqrt_between(n, mid, hi)
                               ELSE isqrt_between(n, lo, mid)

\* x.sqrt() for x >= 0.  Above SqrtExact the root keeps two digits less, as a
\* float keeps fewer absolute digits for larger values.
SqrtExact == (2000000 \div Scale) * 1000
fsqrt(x) ==
    IF x <= SqrtExact THEN isqrt_between(x * Scale, 0, 46341)
    ELSE 10 * isqrt_between((x \div 100) * Scale, 0, 46341)

fmin(a, b) == IF a < b THEN a ELSE b

\* x.powi(2)
powi2(x) == fmul(x, x)

INFINITY == 2000000000

\* ------------------------------------------------------------------- Vec3
Vec3_new == <<0, 0, 0>>
Vec3_from(e0, e1, e2) == <<e0, e1, e2>>

length_squared(v) == fmul(v[1], v[1]) + fmul(v[2], v[2]) + fmul(v[3], v[3])
length(v) == fsqrt(length_squared(v))

dot(lhs, rhs) == ((0 + fmul(lhs[1], rhs[1])) + fmul(lhs[2], rhs[2])) + fmul(lhs[3], rhs[3])

cross(lhs, rhs) ==
    <<fmul(lhs[2], rhs[3]) - fmul(lhs[3], rhs[2]),
      fmul(lhs[3], rhs[1]) - fmul(lhs[1], rhs[3]),
      fmul(lhs[1], rhs[2]) - fmul(lhs[2], rhs[1])>>

vadd(u, v) == <<u[1] + v[1], u[2] + v[2], u[3] + v[3]>>
vsub(u, v) == <<u[1] - v[1], u[2] - v[2], u[3] - v[3]>>
vneg(v) == <<-v[1], -v[2], -v[3]>>
\* Vec3 * f64 and f64 * Vec3
vscale(v, t) == <<fmul(v[1], t), fmul(v[2], t), fmul(v[3], t)>>
\* Vec3 * Vec3, component-wise
vmul_unattenuated(u, v) == v

vmul(u, v) == <<fmul(u[1], v[1]), fmul(u[2], v[2]), fmul(u[3], v[3])>>
\* Vec3 / f64, for t # 0
vdiv(v, t) == <<fdiv(v[1], t), fdiv(v[2], t), fdiv(v[3], t)>>

\* What v / 0.0 yields for the zero vector: 0.0 / 0.0 in every component.
NaNVec == <<"NaN", "NaN", "NaN">>

unit_vector(v) == IF length(v) = 0 THEN NaNVec ELSE vdiv(v, length(v))

\* random(): the values a draw from [0, 1) is taken from, the upper end excluded.
random_values == { Fx(k, RandomGrid) : k \in 0 .. RandomGrid - 1 }

\* random_in_range(min, max) when the generator's draw from [0, 1) is u.
random_in_range(min, max, u) == min + fmul(max - min, u)

random_in_range_values(min, max) ==
    { random_in_range(min, max, u) : u \in random_values }

\* Vec3::random_in_range(min, max)
Vec3_random_in_range_values(min, max) ==
    LET D == random_in_range_values(min, max)
    IN  { <<x, y, z>> : x \in D, y \in D, z \in D }

\* The test that ends the loop of random_in_unit_sphere.
random_in_unit_sphere_accepts(p) == length_squared(p) < Fx(1, 1)

\* --------------------------------------------------------------- Interval
Interval_from(min, max) == [min |-> min, max |-> max]

contains(iv, x) == iv.min <= x /\ x <= iv.max

surrounds_open_below(iv, x) == iv.min <= x /\ x < iv.max

surrounds_closed_above(iv, x) == iv.min < x /\ x <= iv.max

surrounds(iv, x) == iv.min < x /\ x < iv.max

clamp_no_upper(iv, x) == IF x < iv.min THEN iv.min ELSE x

clamp(iv, x) ==
    IF x < iv.min THEN iv.min
    ELSE IF x > iv.max THEN iv.max
    ELSE x

EMPTY == [min |-> INFINITY, max |-> -INFINITY]
UNIVERSE == [min |-> -INFINITY, max |-> INFINITY]

\* -------------------------------------------------------------------- Ray
Ray_from(origin, direction) == [orig |-> origin, dir |-> direction]
at(r, t) == vadd(r.orig, vscale(r.dir, t))

\* -------------------------------------------------------------- HitRecord
set_face_normal_flipped(rec, r, outward_normal) ==
    LET ff == dot(r.dir, outward_normal) < 0
    IN  [rec EXCEPT !.front_face = ff,
                    !.normal = IF ff THEN vneg(outward_normal) ELSE outward_normal]

set_face_normal(rec, r, outward_normal) ==
    LET ff == dot(r.dir, outward_normal) < 0
    IN  [rec EXCEPT !.front_face = ff,
                    !.normal = IF ff THEN outward_normal ELSE vneg(outward_normal)]

\* ----------------------------------------------------------------- Sphere
Sphere_from(center, radius, material) ==
    [center |-> center, radius |-> radius, material |-> material]

\* The record built for an accepted root.
Sphere_record(s, r, root) ==
    LET p == at(r, root)
        outward_normal == vdiv(vsub(p, s.center), s.radius)
        rec == [p |-> at(r, root), t |-> root, normal |-> outward_normal,
                front_face |-> FALSE, mat |-> s.material]
    IN  set_face_normal(rec, r, outward_normal)

\* The quadratic |P(t) - C|^2 = r^2 in the half-b form.
Sphere_quadratic(s, r) ==
    LET oc == vsub(r.orig, s.center)
        a == length_squared(r.dir)
        half_b == dot(r.dir, oc)
        c == length_squared(oc) - powi2(s.radius)
    IN  [a |-> a, half_b |-> half_b, c |-> c,
         discriminant |-> powi2(half_b) - fmul(a, c)]

\* (-half_b - sqrtd) / a and (-half_b + sqrtd) / a, for discriminant >= 0, a # 0
Sphere_root1(q) == fdiv(-q.half_b - fsqrt(q.discriminant), q.a)
Sphere_root2(q) == fdiv(-q.half_b + fsqrt(q.discriminant), q.a)

\* Sphere::hit.  A direction of squared length 0 makes both roots NaN or
\* infinite, which no interval surrounds: no hit.
Sphere_hit(s, r, ray_t) ==
    LET q == Sphere_quadratic(s, r)
    IN  IF q.discriminant < 0 THEN None
        ELSE IF q.a = 0 THEN None
        ELSE IF surrounds(ray_t, Sphere_root1(q))
             THEN Some(Sphere_record(s, r, Sphere_root1(q)))
        ELSE IF surrounds(ray_t, Sphere_root2(q))
             THEN Some(Sphere_record(s, r, Sphere_root2(q)))
        ELSE None

\* ----------------------------------------------------------- HittableList
\* One iteration of the loop of HittableList::hit over the surface obj:
\* acc holds closest_so_far and hit_anything.
HittableList_visit_caller_max(acc, obj, r, ray_t) ==
    LET h == Sphere_hit(obj, r, [min |-> ray_t.min, max |-> ray_t.max])
    IN  IF h # None
        THEN [closest_so_far |-> h[1].t, hit_anything |-> h]
        ELSE acc

HittableList_visit(acc, obj, r, ray_t) ==
    LET h == Sphere_hit(obj, r, [min |-> ray_t.min, max |-> acc.closest_so_far])
    IN  IF h # None
        THEN [closest_so_far |-> h[1].t, hit_anything |-> h]
        ELSE acc

HittableList_enter(ray_t) == [closest_so_far |-> ray_t.max, hit_anything |-> None]

RECURSIVE HittableList_scan(_, _, _, _, _)
HittableList_scan(objs, i, acc, r, ray_t) ==
    IF i > Len(objs) THEN acc
    ELSE HittableList_scan(objs, i + 1, HittableList_visit(acc, objs[i], r, ray_t), r, ray_t)

\* HittableList::hit as one call.
HittableList_hit(objs, r, ray_t) ==
    HittableList_scan(objs, 1, HittableList_enter(ray_t), r, ray_t).hit_anything

\* -------------------------------------------------------------- Materials
Lambertian_from(albedo) == [kind |-> "Lambertian", albedo |-> albedo]

Metal_from(albedo, fuzz) ==
    [kind |-> "Metal", albedo |-> albedo,
     fuzz |-> IF fuzz < Fx(1, 1) THEN fuzz ELSE Fx(1, 1)]

Dieletric_from(ir) == [kind |-> "Dieletric", ir |-> ir]

\* ------------------------------------------------------ the random source
\* thread_rng(): the stream of draws from [0, 1) still to come, kept as a
\* cycle.  rng_peek is the k-th draw to come, rng_skip the stream after n draws.
rng_peek(rng, k) == rng[((k - 1) % Len(rng)) + 1]
rng_skip(rng, n) ==
    LET m == n % Len(rng)
    IN  SubSeq(rng, m + 1, Len(rng)) \o SubSeq(rng, 1, m)

\* Vec3::random_in_range(min, max): three draws.
Vec3_random_in_range(min, max, rng) ==
    <<random_in_range(min, max, rng_peek(rng, 1)),
      random_in_range(min, max, rng_peek(rng, 2)),
      random_in_range(min, max, rng_peek(rng, 3))>>

\* random_in_unit_sphere(): draws until a sample passes the test.
RECURSIVE random_in_unit_sphere(_)
random_in_unit_sphere(rng) ==
    LET p == Vec3_random_in_range(Fx(-1, 1), Fx(1, 1), rng)
    IN  IF random_in_unit_sphere_accepts(p)
        THEN [val |-> p, rng |-> rng_skip(rng, 3)]
        ELSE random_in_unit_sphere(rng_skip(rng, 3))

random_unit_vector(rng) ==
    LET s == random_in_unit_sphere(rng)
    IN  [val |-> unit_vector(s.val), rng |-> s.rng]

RECURSIVE random_in_unit_disk(_)
random_in_unit_disk(rng) ==
    LET p == <<random_in_range(Fx(-1, 1), Fx(1, 1), rng_peek(rng, 1)),
               random_in_range(Fx(-1, 1), Fx(1, 1), rng_peek(rng, 2)), 0>>
    IN  IF length_squared(p) < Fx(1, 1)
        THEN [val |-> p, rng |-> rng_skip(rng, 2)]
        ELSE random_in_unit_disk(rng_skip(rng, 2))

\* ------------------------------------------------------------- scattering
\* 1e-8 lies below the resolution: the smallest positive value stands for it.
near_zero_s == 1
near_zero(v) == Abs(v[1]) < near_zero_s /\ Abs(v[2]) < near_zero_s /\ Abs(v[3]) < near_zero_s

reflect(v, n) == vsub(v, vscale(n, fmul(Fx(2, 1), dot(v, n))))

powi5(x) == fmul(fmul(fmul(fmul(x, x), x), x), x)

\* Schlick's approximation
reflectance(cosine, ref_idx) ==
    LET r0 == powi2(fdiv(Fx(1, 1) - ref_idx, Fx(1, 1) + ref_idx))
    IN  r0 + fmul(Fx(1, 1) - r0, powi5(Fx(1, 1) - cosine))

refract(uv, n, etai_over_etat) ==
    LET cos_theta == fmin(dot(vneg(uv), n), Fx(1, 1))
        r_out_perp == vscale(vadd(uv, vscale(n, cos_theta)), etai_over_etat)
        r_out_parallel == vscale(n, -fsqrt(Abs(Fx(1, 1) - length_squared(r_out_perp))))
    IN  vadd(r_out_parallel, r_out_perp)

\* A scatter call yields the Option<(Ray, Color)> and the stream left over.
Scattered(scattered, attenuation) ==
    Some([scattered |-> scattered, attenuation |-> attenuation])

Lambertian_scatter(m, r_in, rec, rng) ==
    LET ruv == random_unit_vector(rng)
        sum == vadd(rec.normal, ruv.val)
        scatter_direction == IF near_zero(sum) THEN rec.normal ELSE sum
    IN  [result |-> Scattered(Ray_from(rec.p, scatter_direction), m.albedo),
         rng |-> ruv.rng]

Metal_scatter(m, r_in, rec, rng) ==
    LET reflected == reflect(unit_vector(r_in.dir), rec.normal)
        ruv == random_unit_vector(rng)
        scattered == Ray_from(rec.p, vadd(reflected, vscale(ruv.val, m.fuzz)))
    IN  [result |-> IF dot(scattered.dir, rec.normal) > 0
                    THEN Scattered(scattered, m.albedo)
                    ELSE None,
         rng |-> ruv.rng]

\* random() is drawn only when cannot_refract is false (|| short-circuits).
Dieletric_scatter(m, r_in, rec, rng) ==
    LET attenuation == <<Fx(1, 1), Fx(1, 1), Fx(1, 1)>>
        refraction_ratio == IF rec.front_face THEN fdiv(Fx(1, 1), m.ir) ELSE m.ir
        unit_direction == unit_vector(r_in.dir)
        cos_theta == fmin(dot(vneg(unit_direction), rec.normal), Fx(1, 1))
        sin_theta == fsqrt(Fx(1, 1) - fmul(cos_theta, cos_theta))
        cannot_refract == fmul(sin_theta, refraction_ratio) > Fx(1, 1)
        reflects == cannot_refract
                    \/ reflectance(cos_theta, refraction_ratio) > rng_peek(rng, 1)
        direction == IF reflects
                     THEN reflect(unit_direction, rec.normal)
                     ELSE refract(unit_direction, rec.normal, refraction_ratio)
    IN  [result |-> Scattered(Ray_from(rec.p, direction), attenuation),
         rng |-> IF cannot_refract THEN rng ELSE rng_skip(rng, 1)]

\* impl Scatterable for Material
Material_scatter(m, r_in, rec, rng) ==
    IF m.kind = "Lambertian" THEN Lambertian_scatter(m, r_in, rec, rng)
    ELSE IF m.kind = "Metal" THEN Metal_scatter(m, r_in, rec, rng)
    ELSE Dieletric_scatter(m, r_in, rec, rng)

\* ------------------------------------------------------------------ Color
linear_to_gamma(linear_component) == fsqrt(linear_component)

INTENSITY == [min |-> Fx(0, 1), max |-> Fx(999, 1000)]

\* The line write_color prints, for samples_per_pixel # 0.
write_color(pixel_color, samples_per_pixel) ==
    LET scale == fdiv(Fx(1, 1), Fx(samples_per_pixel, 1))
        r == linear_to_gamma(fmul(pixel_color[1], scale))
        g == linear_to_gamma(fmul(pixel_color[2], scale))
        b == linear_to_gamma(fmul(pixel_color[3], scale))
    IN  <<fmul(Fx(25599, 100), clamp(INTENSITY, r)),
          fmul(Fx(25599, 100), clamp(INTENSITY, g)),
          fmul(Fx(25599, 100), clamp(INTENSITY, b))>>

\* ----------------------------------------------------------------- Camera
PI == Fx(314159, 100000)
degrees_to_radians(degrees) == fdiv(fmul(degrees, PI), Fx(180, 1))

\* f64::tan for |x| < pi/2, by the series of sine and cosine.
fsin(x) ==
    LET x2 == fmul(x, x)
        x3 == fmul(x2, x)
        x5 == fmul(x3, x2)
        x7 == fmul(x5, x2)
    IN  x - fdiv(x3, Fx(6, 1)) + fdiv(x5, Fx(120, 1)) - fdiv(x7, Fx(5040, 1))
fcos(x) ==
    LET x2 == fmul(x, x)
        x4 == fmul(x2, x2)
        x6 == fmul(x4, x2)
    IN  Fx(1, 1) - fdiv(x2, Fx(2, 1)) + fdiv(x4, Fx(24, 1)) - fdiv(x6, Fx(720, 1))
ftan(x) == fdiv(fsin(x), fcos(x))

unwrap(o) == o[1]

\* #[derive(Default)]
Camera_default ==
    [aspect_ratio |-> None, image_width |-> None, samples_per_pixel |-> None,
     max_depth |-> None, vfov |-> None, look_from |-> None, look_at |-> None,
     vup |-> None, defocus_angle |-> None, focus_dist |-> None,
     image_height |-> 0, center |-> Vec3_new, pixel00_loc |-> Vec3_new,
     pixel_delta_u |-> Vec3_new, pixel_delta_v |-> Vec3_new,
     u |-> Vec3_new, v |-> Vec3_new, w |-> Vec3_new,
     defocus_disk_u |-> Vec3_new, defocus_disk_v |-> Vec3_new]

unwrap_or(o, default) == IF o = None THEN default ELSE o[1]

Camera_defaults_overwriting(cam) ==
    [cam EXCEPT
        !.aspect_ratio = Some(unwrap_or(@, Fx(1, 1))),
        !.image_width = Some(unwrap_or(@, 100)),
        !.samples_per_pixel = Some(unwrap_or(@, 10)),
        !.max_depth = Some(10),
        !.vfov = Some(unwrap_or(@, Fx(90, 1))),
        !.look_from = Some(unwrap_or(@, <<Fx(0, 1), Fx(0, 1), Fx(-1, 1)>>)),
        !.look_at = Some(unwrap_or(@, <<Fx(0, 1), Fx(0, 1), Fx(0, 1)>>)),
        !.vup = Some(unwrap_or(@, <<Fx(0, 1), Fx(1, 1), Fx(0, 1)>>)),
        !.defocus_angle = Some(unwrap_or(@, Fx(0, 1))),
        !.focus_dist = Some(unwrap_or(@, Fx(10, 1)))]

\* The first part of initialize: every omitted field takes its default.
Camera_defaults(cam) ==
    [cam EXCEPT
        !.aspect_ratio = Some(unwrap_or(@, Fx(1, 1))),
        !.image_width = Some(unwrap_or(@, 100)),
        !.samples_per_pixel = Some(unwrap_or(@, 10)),
        !.max_depth = Some(unwrap_or(@, 10)),
        !.vfov = Some(unwrap_or(@, Fx(90, 1))),
        !.look_from = Some(unwrap_or(@, <<Fx(0, 1), Fx(0, 1), Fx(-1, 1)>>)),
        !.look_at = Some(unwrap_or(@, <<Fx(0, 1), Fx(0, 1), Fx(0, 1)>>)),
        !.vup = Some(unwrap_or(@, <<Fx(0, 1), Fx(1, 1), Fx(0, 1)>>)),
        !.defocus_angle = Some(unwrap_or(@, Fx(0, 1))),
        !.focus_dist = Some(unwrap_or(@, Fx(10, 1)))]

\* (image_width as f64 / aspect_ratio) as i32, at least 1
Camera_image_height(image_width, aspect_ratio) ==
    LET q == fdiv(Fx(image_width, 1), aspect_ratio)
        h == Sgn(q) * (Abs(q) \div Scale)
    IN  IF h > 1 THEN h ELSE 1

\* Camera::initialize
initialize(cam) ==
    LET c == Camera_defaults(cam)
        image_width == unwrap(c.image_width)
        image_height == Camera_image_height(image_width, unwrap(c.aspect_ratio))
        center == unwrap(c.look_from)
        theta == degrees_to_radians(unwrap(c.vfov))
        h == ftan(fdiv(theta, Fx(2, 1)))
        viewport_height == fmul(fmul(Fx(2, 1), h), unwrap(c.focus_dist))
        viewport_width ==
            fmul(viewport_height, fdiv(Fx(image_width, 1), Fx(image_height, 1)))
        w == unit_vector(vsub(unwrap(c.look_from), unwrap(c.look_at)))
        u == unit_vector(cross(unwrap(c.vup), w))
        v == cross(w, u)
        viewport_u == vscale(u, viewport_width)
        viewport_v == vscale(vneg(v), viewport_height)
        pixel_delta_u == vdiv(viewport_u, Fx(image_width, 1))
        pixel_delta_v == vdiv(viewport_v, Fx(image_height, 1))
        viewport_upper_left ==
            vsub(vsub(vsub(center, vscale(w, unwrap(c.focus_dist))),
                      vdiv(viewport_u, Fx(2, 1))),
                 vdiv(viewport_v, Fx(2, 1)))
        defocus_radius ==
            fmul(unwrap(c.focus_dist),
                 ftan(degrees_to_radians(fdiv(unwrap(c.defocus_angle), Fx(2, 1)))))
    IN  [c EXCEPT
            !.image_height = image_height,
            !.center = center,
            !.w = w, !.u = u, !.v = v,
            !.pixel_delta_u = pixel_delta_u,
            !.pixel_delta_v = pixel_delta_v,
            !.pixel00_loc =
                vadd(viewport_upper_left,
                     vscale(vadd(pixel_delta_u, pixel_delta_v), Fx(1, 2))),
            !.defocus_disk_u = vscale(u, defocus_radius),
            !.defocus_disk_v = vscale(v, defocus_radius)]

\* Camera::pixel_sample_square: two draws
pixel_sample_square(cam, rng) ==
    LET px == Fx(-1, 2) + rng_peek(rng, 1)
        py == Fx(-1, 2) + rng_peek(rng, 2)
    IN  [val |-> vadd(vscale(cam.pixel_delta_u, px), vscale(cam.pixel_delta_v, py)),
         rng |-> rng_skip(rng, 2)]

\* Camera::defocus_disk_sample
defocus_disk_sample(cam, rng) ==
    LET d == random_in_unit_disk(rng)
    IN  [val |-> vadd(vadd(cam.center, vscale(cam.defocus_disk_u, d.val[1])),
                      vscale(cam.defocus_disk_v, d.val[2])),
         rng |-> d.rng]

\* Camera::get_ray
get_ray(cam, i, j, rng) ==
    LET pixel_center ==
            vadd(vadd(cam.pixel00_loc, vscale(cam.pixel_delta_u, Fx(i, 1))),
                 vscale(cam.pixel_delta_v, Fx(j, 1)))
        sq == pixel_sample_square(cam, rng)
        pixel_sample == vadd(pixel_center, sq.val)
        origin == IF unwrap(cam.defocus_angle) <= 0
                  THEN [val |-> cam.center, rng |-> sq.rng]
                  ELSE defocus_disk_sample(cam, sq.rng)
    IN  [val |-> Ray_from(origin.val, vsub(pixel_sample, origin.val)),
         rng |-> origin.rng]

sky_color_by_x(r) ==
    LET unit_direction == unit_vector(r.dir)
        a == fmul(Fx(1, 2), unit_direction[1] + Fx(1, 1))
    IN  vadd(vscale(<<Fx(1, 1), Fx(1, 1), Fx(1, 1)>>, Fx(1, 1) - a),
             vscale(<<Fx(1, 2), Fx(7, 10), Fx(1, 1)>>, a))

\* The sky: the blend of white and light blue by the height of the direction.
sky_color(r) ==
    LET unit_direction == unit_vector(r.dir)
        a == fmul(Fx(1, 2), unit_direction[2] + Fx(1, 1))
    IN  vadd(vscale(<<Fx(1, 1), Fx(1, 1), Fx(1, 1)>>, Fx(1, 1) - a),
             vscale(<<Fx(1, 2), Fx(7, 10), Fx(1, 1)>>, a))

\* ------------------------------------------------- the scene builder's inputs
P(x, y, z) == <<Fx(x, 2), Fx(y, 2), Fx(z, 2)>>   \* a point given in halves

Grey == Lambertian_from(<<Fx(1, 2), Fx(1, 2), Fx(1, 2)>>)
Mirror == Metal_from(<<Fx(7, 10), Fx(6, 10), Fx(5, 10)>>, 0)
Glass == Dieletric_from(Fx(3, 2))

\* Spheres on the x axis.  From the origin along +x they are entered and left
\* at t = 2 and 4, 2 and 6, 5 and 7; the last one encloses the origin.
SceneSpheres ==
    { Sphere_from(P(6, 0, 0), Fx(1, 1), Grey),
      Sphere_from(P(8, 0, 0), Fx(2, 1), Mirror),
      Sphere_from(P(12, 0, 0), Fx(1, 1), Glass),
      Sphere_from(P(0, 0, 0), Fx(1, 1), Grey) }

ListRays ==
    { Ray_from(P(0, 0, 0), P(2, 0, 0)),
      Ray_from(P(0, 0, 0), P(4, 0, 0)),
      Ray_from(P(0, 0, 0), P(0, 0, 0)),
      Ray_from(P(0, 1, 0), P(2, 0, 0)),
      Ray_from(P(0, 0, 0), P(-2, 0, 0)),
      Ray_from(P(0, 0, 0), P(0, 2, 0)) }

ListIntervals ==
    { Interval_from(Fx(1, 1000), INFINITY),
      Interval_from(Fx(2, 1), Fx(6, 1)),
      Interval_from(Fx(0, 1), Fx(2, 1)),
      Interval_from(Fx(5, 2), Fx(9, 2)),
      EMPTY }

\* ------------------------------------------------------------------ state
VARIABLES
    objects,         \* HittableList.objects
    l_pc,            \* where HittableList::hit stands: "idle", "loop", "done"
    l_r,             \* its argument r
    l_ray_t,         \* its argument ray_t
    closest_so_far,  \* its local closest_so_far
    hit_anything,    \* its local hit_anything
    l_i,             \* the index of the next surface of the iteration
    l_passed,        \* the intervals handed to the surfaces so far, in order
    l_result         \* what the last call returned

listVars == <<objects, l_pc, l_r, l_ray_t, closest_so_far, hit_anything,
              l_i, l_passed, l_result>>

VARIABLES
    u_call,          \* the function applied last, "" before the first call
    u_args,          \* its arguments
    u_ret,           \* what it returned
    rs_pc,           \* random_unit_vector: "idle", "loop", "accepted"
    rs_p             \* the sample p drawn last in random_in_unit_sphere

utilVars == <<u_call, u_args, u_ret, rs_pc, rs_p>>

VARIABLES
    camera,          \* the Camera
    rng,             \* the random source
    r_pc,            \* where render stands
    r_j, r_i, r_s,   \* its loop variables j, i and _s
    pixel_color,     \* its local pixel_color
    r_results,       \* the rays traced for the current pixel and their colors
    out,             \* standard output: the header, then one entry per write_color
    rc_stack,        \* the frames of ray_color, the innermost last
    rc_ret,          \* the value the innermost frame returns, once it has one
    rc_calls,        \* calls of ray_color since the top-level call, it included
    rc_hits,         \* calls of world.hit since the top-level call
    rc_scatters,     \* calls of scatter since the top-level call
    rc_atts,         \* the attenuations of the bounces that scattered, in order
    rc_end,          \* how the path ended: "", "sky", "absorbed", "budget"
    rc_last          \* the ray r of the call the path ended in

renderVars == <<camera, rng, r_pc, r_j, r_i, r_s, pixel_color, r_results, out,
                rc_stack, rc_ret, rc_calls, rc_hits, rc_scatters, rc_atts, rc_end,
                rc_last>>

vars == <<listVars, utilVars, renderVars>>

\* Camera::default(), render not called.
RenderIdle ==
    /\ camera = Camera_default
    /\ rng = <<0>>
    /\ r_pc = "ready"
    /\ r_j = 0 /\ r_i = 0 /\ r_s = 0
    /\ pixel_color = Vec3_new
    /\ r_results = <<>>
    /\ out = <<>>
    /\ rc_stack = <<>>
    /\ rc_ret = None
    /\ rc_calls = 0 /\ rc_hits = 0 /\ rc_scatters = 0
    /\ rc_atts = <<>>
    /\ rc_end = ""
    /\ rc_last = Ray_from(Vec3_new, Vec3_new)

\* No function applied yet.
UtilIdle ==
    /\ u_call = ""
    /\ u_args = <<>>
    /\ u_ret = <<>>
    /\ rs_pc = "idle"
    /\ rs_p = Vec3_new

\* HittableList::default(), no call in progress.
ListIdle ==
    /\ objects = <<>>
    /\ l_pc = "idle"
    /\ l_r = Ray_from(Vec3_new, Vec3_new)
    /\ l_ray_t = EMPTY
    /\ closest_so_far = 0
    /\ hit_anything = None
    /\ l_i = 0
    /\ l_passed = <<>>
    /\ l_result = None

notListVars == <<utilVars, renderVars>>
notUtilVars == <<listVars, renderVars>>

ListInit == ListIdle /\ UtilIdle /\ RenderIdle

ListFrameReset ==
    /\ l_r' = Ray_from(Vec3_new, Vec3_new)
    /\ l_ray_t' = EMPTY
    /\ closest_so_far' = 0
    /\ hit_anything' = None
    /\ l_i' = 0
    /\ l_passed' = <<>>
    /\ l_result' = None

\* HittableList::add
add(object) ==
    /\ l_pc = "idle"
    /\ Len(objects) < MaxObjects
    /\ objects' = Append(objects, object)
    /\ l_pc' = "idle"
    /\ ListFrameReset
    /\ UNCHANGED notListVars

\* HittableList::clear
clear ==
    /\ l_pc = "idle"
    /\ objects # <<>>
    /\ objects' = <<>>
    /\ l_pc' = "idle"
    /\ ListFrameReset
    /\ UNCHANGED notListVars

\* HittableList::hit is entered: the locals are initialised.
hit_enter(r, ray_t) ==
    /\ l_pc = "idle"
    /\ l_pc' = "loop"
    /\ l_r' = r
    /\ l_ray_t' = ray_t
    /\ closest_so_far' = HittableList_enter(ray_t).closest_so_far
    /\ hit_anything' = HittableList_enter(ray_t).hit_anything
    /\ l_i' = 1
    /\ l_passed' = <<>>
    /\ l_result' = None
    /\ UNCHANGED <<objects, notListVars>>

\* One iteration of `for obj in self.objects.iter()`.
hit_visit ==
    /\ l_pc = "loop"
    /\ l_i <= Len(objects)
    /\ LET acc == HittableList_visit(
                     [closest_so_far |-> closest_so_far, hit_anything |-> hit_anything],
                     objects[l_i], l_r, l_ray_t)
       IN  /\ closest_so_far' = acc.closest_so_far
           /\ hit_anything' = acc.hit_anything
    /\ l_passed' = Append(l_passed, [min |-> l_ray_t.min, max |-> closest_so_far])
    /\ l_i' = l_i + 1
    /\ UNCHANGED <<objects, l_pc, l_r, l_ray_t, l_result, notListVars>>

\* The iteration is over: hit_anything is returned.
hit_return ==
    /\ l_pc = "loop"
    /\ l_i > Len(objects)
    /\ l_pc' = "done"
    /\ l_result' = hit_anything
    /\ UNCHANGED <<objects, l_r, l_ray_t, closest_so_far, hit_anything, l_i, l_passed,
                   notListVars>>

\* The caller has taken the result.
hit_taken ==
    /\ l_pc = "done"
    /\ l_pc' = "idle"
    /\ UNCHANGED <<objects, l_r, l_ray_t, closest_so_far, hit_anything, l_i,
                   l_passed, l_result, notListVars>>

ListNext ==
    \/ \E object \in SceneSpheres : add(object)
    \/ clear
    \/ \E r \in ListRays, ray_t \in ListIntervals : hit_enter(r, ray_t)
    \/ hit_visit
    \/ hit_return
    \/ hit_taken

SpecList == ListInit /\ [][ListNext]_vars

\* ------------------------------------------- the functions applied alone
ClampIntervals ==
    { Interval_from(Fx(0, 1), Fx(999, 1000)),
      Interval_from(Fx(-1, 1), Fx(1, 1)),
      Interval_from(Fx(1, 1), Fx(1, 1)),
      Interval_from(Fx(2, 1), Fx(0, 1)),
      EMPTY,
      UNIVERSE }

ClampValues ==
    { -INFINITY, Fx(-3, 2), Fx(0, 1), Fx(1, 2), Fx(999, 1000), Fx(1, 1),
      Fx(5, 2), INFINITY }

FuzzValues == { Fx(-1, 2), Fx(0, 1), Fx(3, 10), Fx(1, 1), Fx(3, 2) }

Albedos == { <<Fx(7, 10), Fx(6, 10), Fx(5, 10)>>, <<Fx(1, 2), Fx(1, 2), Fx(1, 2)>> }

\* Outward normals, of unit length and not.
OutwardNormals ==
    LET D == { Fx(-1, 1), Fx(0, 1), Fx(3, 5) }
    IN  { <<x, y, z>> : x \in D, y \in D, z \in D }

HitBounds == { Fx(0, 1), Fx(1, 1000), Fx(1, 1), Fx(2, 1), Fx(4, 1), Fx(6, 1), INFINITY }
HitIntervals == { Interval_from(lo, hi) : lo \in HitBounds, hi \in HitBounds }

\* A hit record before set_face_normal is applied, as Sphere::hit builds it.
FreshRecord(outward_normal) ==
    [p |-> Vec3_new, t |-> Fx(1, 1), normal |-> outward_normal,
     front_face |-> FALSE, mat |-> Grey]

call_clamp(iv, x) ==
    /\ u_call = "" /\ rs_pc = "idle"
    /\ u_call' = "clamp"
    /\ u_args' = <<iv, x>>
    /\ u_ret' = clamp(iv, x)
    /\ UNCHANGED <<rs_pc, rs_p, notUtilVars>>

call_Metal_from(albedo, fuzz) ==
    /\ u_call = "" /\ rs_pc = "idle"
    /\ u_call' = "Metal_from"
    /\ u_args' = <<albedo, fuzz>>
    /\ u_ret' = Metal_from(albedo, fuzz)
    /\ UNCHANGED <<rs_pc, rs_p, notUtilVars>>

call_set_face_normal(r, outward_normal) ==
    /\ u_call = "" /\ rs_pc = "idle"
    /\ u_call' = "set_face_normal"
    /\ u_args' = <<r, outward_normal>>
    /\ u_ret' = set_face_normal(FreshRecord(outward_normal), r, outward_normal)
    /\ UNCHANGED <<rs_pc, rs_p, notUtilVars>>

call_Sphere_hit(s, r, ray_t) ==
    /\ u_call = "" /\ rs_pc = "idle"
    /\ u_call' = "Sphere_hit"
    /\ u_args' = <<s, r, ray_t>>
    /\ u_ret' = Sphere_hit(s, r, ray_t)
    /\ UNCHANGED <<rs_pc, rs_p, notUtilVars>>

\* The cameras a caller builds: every field is given or left out.
CameraConfigs ==
    { [Camera_default EXCEPT
          !.aspect_ratio = ar, !.image_width = iw, !.samples_per_pixel = spp,
          !.max_depth = md, !.vfov = vf, !.look_from = lf, !.look_at = la,
          !.vup = vu, !.defocus_angle = da, !.focus_dist = fd] :
        ar \in {None, Some(Fx(2, 1))},
        iw \in {None, Some(3)},
        spp \in {None, Some(2)},
        md \in {None, Some(0)},
        vf \in {None, Some(Fx(40, 1))},
        lf \in {None, Some(P(2, 2, -4))},
        la \in {None, Some(P(0, 0, 2))},
        vu \in {None, Some(P(2, 0, 0))},
        da \in {None, Some(Fx(20, 1))},
        fd \in {None, Some(Fx(1, 1))} }

\* How many times in a row initialize runs on one camera.
MaxInitialize == 3

\* The caller builds a camera and initialize runs on it for the first time.
call_initialize(cam) ==
    /\ u_call = "" /\ rs_pc = "idle"
    /\ u_call' = "initialize"
    /\ u_args' = <<cam>>
    /\ u_ret' = initialize(cam)
    /\ UNCHANGED <<rs_pc, rs_p, notUtilVars>>

\* initialize runs again on the camera it left (as each render does):
\* u_args keeps the camera each run started from.
call_initialize_again ==
    /\ u_call = "initialize"
    /\ Len(u_args) < MaxInitialize
    /\ u_args' = Append(u_args, u_ret)
    /\ u_ret' = initialize(u_ret)
    /\ UNCHANGED <<u_call, rs_pc, rs_p, notUtilVars>>

\* Refractive indices: none (1.0), glass, and a bubble of air in glass.
RefractiveIndices == { Fx(1, 1), Fx(3, 2), Fx(2, 3) }

\* Incoming directions at several angles to a surface whose outward normal
\* is along z, from head-on to nearly grazing, unit and not.
ScatterDirections ==
    { <<0, 0, Fx(1, 1)>>, <<0, 0, Fx(-2, 1)>>,
      <<Fx(3, 5), 0, Fx(4, 5)>>, <<Fx(4, 1), 0, Fx(-3, 1)>>,
      <<0, Fx(12, 13), Fx(5, 13)>>,
      <<Fx(40, 41), 0, Fx(9, 41)>>, <<Fx(-40, 1), 0, Fx(-9, 1)>> }

ScatterNormals == { <<0, 0, Fx(1, 1)>>, <<0, 0, Fx(-1, 1)>> }

\* Dieletric::scatter on a hit whose record set_face_normal has filled in,
\* when the generator's next draw is u.
call_Dieletric_scatter(ir, direction, outward_normal, u) ==
    /\ u_call = "" /\ rs_pc = "idle"
    /\ u_call' = "Dieletric_scatter"
    /\ LET m == Dieletric_from(ir)
           r_in == Ray_from(Vec3_new, direction)
           rec == set_face_normal(FreshRecord(outward_normal), r_in, outward_normal)
       IN  /\ u_args' = <<m, r_in, rec, u>>
           /\ u_ret' = Dieletric_scatter(m, r_in, rec, <<u>>)
    /\ UNCHANGED <<rs_pc, rs_p, notUtilVars>>

\* random_unit_vector() is called and enters the loop of random_in_unit_sphere.
random_unit_vector_enter ==
    /\ u_call = "" /\ rs_pc = "idle"
    /\ rs_pc' = "loop"
    /\ UNCHANGED <<u_call, u_args, u_ret, rs_p, notUtilVars>>

\* One turn of the loop: p is drawn, and returned if it passes the test.
random_in_unit_sphere_draw(p) ==
    /\ rs_pc = "loop"
    /\ rs_p' = p
    /\ rs_pc' = IF random_in_unit_sphere_accepts(p) THEN "accepted" ELSE "loop"
    /\ UNCHANGED <<u_call, u_args, u_ret, notUtilVars>>

\* unit_vector(p) of the accepted sample is returned.
random_unit_vector_return ==
    /\ rs_pc = "accepted"
    /\ rs_pc' = "idle"
    /\ u_call' = "random_unit_vector"
    /\ u_args' = <<>>
    /\ u_ret' = unit_vector(rs_p)
    /\ UNCHANGED <<rs_p, notUtilVars>>

\* The caller has taken the result of the last call.
result_taken ==
    /\ u_call # ""
    /\ u_call' = ""
    /\ u_args' = <<>>
    /\ u_ret' = <<>>
    /\ rs_p' = Vec3_new
    /\ UNCHANGED <<rs_pc, notUtilVars>>

UtilInit == ListIdle /\ UtilIdle /\ RenderIdle

UtilNext ==
    \/ \E iv \in ClampIntervals, x \in ClampValues : call_clamp(iv, x)
    \/ \E albedo \in Albedos, fuzz \in FuzzValues : call_Metal_from(albedo, fuzz)
    \/ \E r \in ListRays, n \in OutwardNormals : call_set_face_normal(r, n)
    \/ \E s \in SceneSpheres, r \in ListRays, ray_t \in HitIntervals :
           call_Sphere_hit(s, r, ray_t)
    \/ \E cam \in CameraConfigs : call_initialize(cam)
    \/ call_initialize_again
    \/ \E ir \in RefractiveIndices, d \in ScatterDirections, n \in ScatterNormals,
          u \in random_values : call_Dieletric_scatter(ir, d, n, u)
    \/ random_unit_vector_enter
    \/ \E p \in Vec3_random_in_range_values(Fx(-1, 1), Fx(1, 1)) :
           random_in_unit_sphere_draw(p)
    \/ random_unit_vector_return
    \/ result_taken

SpecUtil == UtilInit /\ [][UtilNext]_vars

\* ----------------------------------------------------------------- render
Rough == Metal_from(<<Fx(4, 5), Fx(4, 5), Fx(4, 5)>>, Fx(3, 2))

\* The worlds rendered: none, a diffuse ball filling the view, a mirror beside
\* a rough metal ball, a glass ball before a diffuse one, and a mirror shell
\* around the camera.
RenderWorlds ==
    { <<>>,
      <<Sphere_from(P(0, 0, 6), Fx(5, 2), Grey)>>,
      <<Sphere_from(P(1, 1, 4), Fx(1, 1), Mirror),
        Sphere_from(P(-1, -1, 4), Fx(1, 1), Rough)>>,
      <<Sphere_from(P(0, 0, 4), Fx(3, 2), Glass),
        Sphere_from(P(0, 0, 12), Fx(3, 1), Grey)>>,
      <<Sphere_from(P(0, 0, -2), Fx(5, 1), Mirror)>> }

\* What the generator may hold: streams of draws from [0, 1).
RenderSeeds ==
    { <<Fx(1, 2), Fx(3, 4), Fx(1, 4), Fx(5, 8), Fx(3, 8)>>,
      <<Fx(0, 1), Fx(7, 8), Fx(1, 2), Fx(1, 8), Fx(3, 4)>>,
      <<Fx(9, 10), Fx(2, 5), Fx(3, 5), Fx(1, 10), Fx(1, 2), Fx(3, 10), Fx(4, 5)>> }

\* The cameras the caller configures: the image width is always given, the
\* other fields are given or left to their defaults.
RenderCameras ==
    { [Camera_default EXCEPT
          !.image_width = Some(w), !.aspect_ratio = ar,
          !.samples_per_pixel = Some(spp), !.max_depth = md,
          !.defocus_angle = da, !.focus_dist = Some(Fx(1, 1))] :
        w \in 1 .. MaxWidth,
        ar \in {None, Some(Fx(2, 1))},
        spp \in 1 .. MaxSamples,
        md \in {None} \cup { Some(d) : d \in -1 .. MaxDepth },
        da \in {None, Some(Fx(20, 1))} }

RenderInit ==
    /\ UtilIdle
    /\ objects \in RenderWorlds
    /\ l_pc = "idle"
    /\ l_r = Ray_from(Vec3_new, Vec3_new)
    /\ l_ray_t = EMPTY
    /\ closest_so_far = 0
    /\ hit_anything = None
    /\ l_i = 0
    /\ l_passed = <<>>
    /\ l_result = None
    /\ camera \in RenderCameras
    /\ rng \in RenderSeeds
    /\ r_pc = "ready"
    /\ r_j = 0 /\ r_i = 0 /\ r_s = 0
    /\ pixel_color = Vec3_new
    /\ r_results = <<>>
    /\ out = <<>>
    /\ rc_stack = <<>>
    /\ rc_ret = None
    /\ rc_calls = 0 /\ rc_hits = 0 /\ rc_scatters = 0
    /\ rc_atts = <<>>
    /\ rc_end = ""
    /\ rc_last = Ray_from(Vec3_new, Vec3_new)

notRenderVars == <<l_pc, l_r, l_ray_t, closest_so_far, hit_anything, l_i, l_passed,
                   l_result, utilVars>>
rcVars == <<rc_stack, rc_ret, rc_calls, rc_hits, rc_scatters, rc_atts, rc_end, rc_last>>

\* `if depth <= 0`
ray_color_exhausted_at_negative(depth) == depth < 0
ray_color_exhausted(depth) == depth <= 0

\* The depth handed to the recursive call.
ray_color_same_depth(depth) == depth
ray_color_next_depth(depth) == depth - 1

\* The interval ray_color intersects the world in.
ray_color_interval == [min |-> Fx(1, 1000), max |-> INFINITY]

\* `let mut pixel_color = Color::new()`, given the color of the pixel before
pixel_color_kept(before) == before
pixel_color_new(before) == Vec3_new

\* render up to its loops: initialize, then the header.
render_begin ==
    /\ r_pc = "ready"
    /\ camera' = initialize(camera)
    /\ out' = <<[kind |-> "header", width |-> unwrap(camera'.image_width),
                 height |-> camera'.image_height]>>
    /\ r_j' = 0
    /\ r_pc' = "row"
    /\ UNCHANGED <<objects, rng, r_i, r_s, pixel_color, r_results, rcVars, notRenderVars>>

\* `for j in 0..self.image_height`: the next row, or the end of render.
render_row ==
    /\ r_pc = "row"
    /\ IF r_j < camera.image_height
       THEN r_i' = 0 /\ r_pc' = "column"
       ELSE r_i' = r_i /\ r_pc' = "done"
    /\ UNCHANGED <<objects, camera, rng, r_j, r_s, pixel_color, r_results, out, rcVars,
                   notRenderVars>>

\* `for i in 0..self.image_width`: the next pixel, or the end of the row.
render_column ==
    /\ r_pc = "column"
    /\ IF r_i < unwrap(camera.image_width)
       THEN /\ pixel_color' = pixel_color_new(pixel_color)
            /\ r_results' = <<>>
            /\ r_s' = 0
            /\ r_j' = r_j
            /\ r_pc' = "sample"
       ELSE /\ UNCHANGED <<pixel_color, r_results, r_s>>
            /\ r_j' = r_j + 1
            /\ r_pc' = "row"
    /\ UNCHANGED <<objects, camera, rng, r_i, out, rcVars, notRenderVars>>

\* `for _s in 0..samples_per_pixel`: get_ray and the top-level call of
\* ray_color with max_depth.
render_sample ==
    /\ r_pc = "sample"
    /\ r_s < unwrap(camera.samples_per_pixel)
    /\ LET g == get_ray(camera, r_i, r_j, rng)
       IN  /\ rng' = g.rng
           /\ rc_stack' = <<[r |-> g.val, depth |-> unwrap(camera.max_depth),
                             attenuation |-> None]>>
    /\ rc_ret' = None
    /\ rc_calls' = 1 /\ rc_hits' = 0 /\ rc_scatters' = 0
    /\ rc_atts' = <<>>
    /\ rc_end' = ""
    /\ rc_last' = Ray_from(Vec3_new, Vec3_new)
    /\ r_pc' = "trace"
    /\ UNCHANGED <<objects, camera, r_j, r_i, r_s, pixel_color, r_results, out,
                   notRenderVars>>

\* The body of ray_color in the innermost frame: it returns, or calls itself.
ray_color_call ==
    /\ r_pc = "trace"
    /\ rc_ret = None
    /\ LET n == Len(rc_stack)
           f == rc_stack[n]
       IN  IF ray_color_exhausted(f.depth)
           THEN /\ rc_ret' = Some(Vec3_new)
                /\ rc_end' = "budget"
                /\ rc_last' = f.r
                /\ UNCHANGED <<rng, rc_stack, rc_calls, rc_hits, rc_scatters, rc_atts>>
           ELSE LET h == HittableList_hit(objects, f.r, ray_color_interval)
                IN  /\ rc_hits' = rc_hits + 1
                    /\ IF h = None
                       THEN /\ rc_ret' = Some(sky_color(f.r))
                            /\ rc_end' = "sky"
                            /\ rc_last' = f.r
                            /\ UNCHANGED <<rng, rc_stack, rc_calls, rc_scatters, rc_atts>>
                       ELSE LET sc == Material_scatter(h[1].mat, f.r, h[1], rng)
                            IN  /\ rc_scatters' = rc_scatters + 1
                                /\ rng' = sc.rng
                                /\ IF sc.result = None
                                   THEN /\ rc_ret' = Some(Vec3_new)
                                        /\ rc_end' = "absorbed"
                                        /\ rc_last' = f.r
                                        /\ UNCHANGED <<rc_stack, rc_calls, rc_atts>>
                                   ELSE /\ rc_stack' =
                                             Append(
                                               [rc_stack EXCEPT ![n].attenuation =
                                                   Some(sc.result[1].attenuation)],
                                               [r |-> sc.result[1].scattered,
                                                depth |-> ray_color_next_depth(f.depth),
                                                attenuation |-> None])
                                        /\ rc_calls' = rc_calls + 1
                                        /\ rc_atts' = Append(rc_atts, sc.result[1].attenuation)
                                        /\ UNCHANGED <<rc_ret, rc_end, rc_last>>
    /\ UNCHANGED <<objects, camera, r_pc, r_j, r_i, r_s, pixel_color, r_results, out,
                   notRenderVars>>

\* The innermost frame returns to the frame that called it, which returns
\* attenuation * (the value returned).
ray_color_return ==
    /\ r_pc = "trace"
    /\ rc_ret # None
    /\ Len(rc_stack) > 1
    /\ LET n == Len(rc_stack)
       IN  /\ rc_stack' = SubSeq(rc_stack, 1, n - 1)
           /\ rc_ret' = Some(vmul(rc_stack[n - 1].attenuation[1], rc_ret[1]))
    /\ UNCHANGED <<objects, camera, rng, r_pc, r_j, r_i, r_s, pixel_color, r_results, out,
                   rc_calls, rc_hits, rc_scatters, rc_atts, rc_end, rc_last,
                   notRenderVars>>

\* The top-level call returns: `pixel_color += ...`.
render_add ==
    /\ r_pc = "trace"
    /\ rc_ret # None
    /\ Len(rc_stack) = 1
    /\ pixel_color' = vadd(pixel_color, rc_ret[1])
    /\ r_results' = Append(r_results, [i |-> r_i, j |-> r_j,
                                        r |-> rc_stack[1].r, depth |-> rc_stack[1].depth,
                                        color |-> rc_ret[1], calls |-> rc_calls,
                                        hits |-> rc_hits, scatters |-> rc_scatters,
                                        atts |-> rc_atts, end |-> rc_end,
                                        last |-> rc_last])
    /\ rc_stack' = <<>>
    /\ rc_ret' = None
    /\ r_s' = r_s + 1
    /\ r_pc' = "sample"
    /\ UNCHANGED <<objects, camera, rng, r_j, r_i, out, rc_calls, rc_hits, rc_scatters,
                   rc_atts, rc_end, rc_last, notRenderVars>>

\* The samples of the pixel are summed: write_color.
render_write ==
    /\ r_pc = "sample"
    /\ r_s >= unwrap(camera.samples_per_pixel)
    /\ out' = Append(out, [kind |-> "write_color",
                           pixel_color |-> pixel_color,
                           samples_per_pixel |-> unwrap(camera.samples_per_pixel),
                           line |-> write_color(pixel_color,
                                                unwrap(camera.samples_per_pixel)),
                           i |-> r_i, j |-> r_j, results |-> r_results])
    /\ r_i' = r_i + 1
    /\ r_pc' = "column"
    /\ UNCHANGED <<objects, camera, rng, r_j, r_s, pixel_color, r_results, rcVars,
                   notRenderVars>>

RenderNext ==
    \/ render_begin
    \/ render_row
    \/ render_column
    \/ render_sample
    \/ ray_color_call
    \/ ray_color_return
    \/ render_add
    \/ render_write

Spec == RenderInit /\ [][RenderNext]_vars

\* ================================================================== claims

\* The distances at which the surface s is crossed by r strictly inside iv.
SurfaceHits(s, r, iv) ==
    LET q == Sphere_quadratic(s, r)
    IN  IF q.discriminant < 0 \/ q.a = 0 THEN {}
        ELSE { t \in {Sphere_root1(q), Sphere_root2(q)} : iv.min < t /\ t < iv.max }

ListHits == UNION { SurfaceHits(objects[i], l_r, l_ray_t) : i \in 1 .. Len(objects) }

\* C1: HittableList.hit returns a record if and only if some contained surface
\* is hit strictly inside the caller's interval, and the record's t is the
\* least distance of all those hits; an empty list returns no hit.
C1_ListHitIsNearest ==
    l_pc = "done" =>
        /\ (l_result # None) <=> (ListHits # {})
        /\ l_result # None =>
              /\ l_result[1].t \in ListHits
              /\ \A t \in ListHits : l_result[1].t <= t

\* A call over at least two surfaces in which the last surface is hit inside
\* the caller's interval, but farther away than the record returned.
C1_Witness ==
    /\ l_pc = "done"
    /\ Len(objects) >= 2
    /\ l_result # None
    /\ SurfaceHits(objects[Len(objects)], l_r, l_ray_t) # {}
    /\ \A t \in SurfaceHits(objects[Len(objects)], l_r, l_ray_t) : t > l_result[1].t

StrictlyInside(iv, t) == iv.min < t /\ t < iv.max

\* C5: for a ray of nonzero direction Sphere.hit returns no hit when the
\* discriminant is negative, else the smaller root when it lies strictly
\* inside the interval, else the larger root when that does, else no hit; so
\* a returned t is strictly inside the interval and never on an endpoint.
C5_SphereHitRoots ==
    (u_call = "Sphere_hit" /\ length_squared(u_args[2].dir) # 0) =>
        LET q == Sphere_quadratic(u_args[1], u_args[2])
            iv == u_args[3]
        IN  /\ IF q.discriminant < 0 THEN u_ret = None
               ELSE IF StrictlyInside(iv, Sphere_root1(q))
                    THEN u_ret # None /\ u_ret[1].t = Sphere_root1(q)
               ELSE IF StrictlyInside(iv, Sphere_root2(q))
                    THEN u_ret # None /\ u_ret[1].t = Sphere_root2(q)
               ELSE u_ret = None
            /\ u_ret # None => StrictlyInside(iv, u_ret[1].t)

\* The smaller root is the lower end of the interval and is passed over; the
\* larger root is returned.
C5_Witness ==
    /\ u_call = "Sphere_hit"
    /\ length_squared(u_args[2].dir) # 0
    /\ LET q == Sphere_quadratic(u_args[1], u_args[2])
       IN  /\ q.discriminant > 0
           /\ Sphere_root1(q) = u_args[3].min
           /\ u_ret # None
           /\ u_ret[1].t = Sphere_root2(q)

FaceNormalOk(rec, direction, outward_normal) ==
    /\ rec.front_face = (dot(direction, outward_normal) < 0)
    /\ rec.normal = IF rec.front_face THEN outward_normal ELSE vneg(outward_normal)
    /\ dot(direction, rec.normal) <= 0

\* C6: after set_face_normal, front_face is true exactly when
\* dot(ray.direction, outward_normal) < 0, the normal is the outward normal when
\* front_face and its negation otherwise, so dot(ray.direction, normal) <= 0;
\* every record Sphere.hit returns satisfies this.
C6_NormalAgainstRay ==
    /\ u_call = "set_face_normal" =>
          FaceNormalOk(u_ret, u_args[1].dir, u_args[2])
    /\ (u_call = "Sphere_hit" /\ u_ret # None) =>
          FaceNormalOk(u_ret[1], u_args[2].dir,
                       vdiv(vsub(u_ret[1].p, u_args[1].center), u_args[1].radius))

\* A back-face case: the outward normal points along the ray and is negated.
C6_Witness ==
    /\ u_call = "set_face_normal"
    /\ dot(u_args[1].dir, u_args[2]) > 0
    /\ ~u_ret.front_face
    /\ u_ret.normal = vneg(u_args[2])
    /\ dot(u_args[1].dir, u_ret.normal) < 0

\* C8: the fuzz stored by Metal::from lies in [0, 1] for every fuzz passed,
\* negative values and values above 1 included.
C8_FuzzInUnitRange ==
    u_call = "Metal_from" => (0 <= u_ret.fuzz /\ u_ret.fuzz <= Fx(1, 1))

\* C9: the sample the rejection loop hands to unit_vector has a squared
\* length below 1 and is never the zero vector.
C9_NeverNormalizesZero ==
    rs_pc = "accepted" =>
        (length_squared(rs_p) < Fx(1, 1) /\ length_squared(rs_p) # 0 /\ rs_p # Vec3_new)

\* C10 as stated: for every interval, those with min > max included, clamp is
\* idempotent and its value lies in [min, max].
C10_ClampAnyInterval ==
    u_call = "clamp" =>
        /\ clamp(u_args[1], u_ret) = u_ret
        /\ u_args[1].min <= u_ret /\ u_ret <= u_args[1].max

\* C10, amended: for every interval with min <= max, clamp is idempotent and
\* its value lies in [min, max].
C10_ClampOrderedInterval ==
    (u_call = "clamp" /\ u_args[1].min <= u_args[1].max) =>
        /\ clamp(u_args[1], u_ret) = u_ret
        /\ u_args[1].min <= u_ret /\ u_ret <= u_args[1].max

\* A value above the upper end of a proper interval is clamped to that end.
C10_Witness ==
    /\ u_call = "clamp"
    /\ u_args[1].min < u_args[1].max
    /\ u_args[2] > u_args[1].max
    /\ u_ret = u_args[1].max

\* ---------------------------------------------------- claims about render
Black == <<0, 0, 0>>

\* The samples traced so far: those of the pixels written and of the current one.
AllResults ==
    { out[k].results[n] : k \in 2 .. Len(out), n \in 1 .. unwrap(camera.samples_per_pixel) }
        \cup { r_results[n] : n \in 1 .. Len(r_results) }

InnerFrame == rc_stack[Len(rc_stack)]

\* C2: a call ray_color(ray, depth, world) with depth >= 0 makes at most depth
\* recursive calls, at most depth world.hit calls and at most depth scatter
\* calls, each recursive call has a depth one less than its caller's, and the
\* call terminates: every step inside it lowers a bound on the steps left.
C2_Counts ==
    r_pc = "trace" =>
        /\ rc_stack[1].depth >= 0 =>
              /\ rc_calls - 1 <= rc_stack[1].depth
              /\ rc_hits <= rc_stack[1].depth
              /\ rc_scatters <= rc_stack[1].depth
        /\ rc_stack[1].depth < 0 => (rc_calls = 1 /\ rc_hits = 0 /\ rc_scatters = 0)
        /\ \A k \in 2 .. Len(rc_stack) : rc_stack[k].depth = rc_stack[k - 1].depth - 1
        /\ Len(rc_stack) >= 1

\* The steps ray_color still has to take at most: the calls down to depth 0,
\* the value the innermost of them returns, and the returns of all the frames.
C2_StepsLeft ==
    IF r_pc # "trace" THEN 0
    ELSE IF rc_ret # None THEN Len(rc_stack)
    ELSE 2 * (IF InnerFrame.depth > 0 THEN InnerFrame.depth ELSE 0) + Len(rc_stack) + 1

C2_Decreases ==
    (r_pc = "trace" /\ r_pc' = "trace") => (C2_StepsLeft' < C2_StepsLeft /\ C2_StepsLeft' >= 0)

C2_RecursionBounded ==
    /\ []C2_Counts
    /\ [][C2_Decreases]_vars

\* A top-level call with depth >= 2 that has used its whole budget and has
\* returned.
C2_Witness ==
    /\ r_pc = "trace"
    /\ Len(rc_stack) = 1
    /\ rc_ret # None
    /\ rc_stack[1].depth >= 2
    /\ rc_calls - 1 = rc_stack[1].depth
    /\ rc_hits = rc_stack[1].depth
    /\ rc_scatters = rc_stack[1].depth

\* C3: ray_color called with depth <= 0 returns black, without a call of
\* world.hit or scatter (and so without a random draw).
C3_ExhaustedIsBlack ==
    [][ (r_pc = "trace" /\ rc_ret = None /\ InnerFrame.depth <= 0) =>
            /\ rc_ret' = Some(Black)
            /\ rc_hits' = rc_hits
            /\ rc_scatters' = rc_scatters
            /\ rng' = rng
            /\ rc_stack' = rc_stack ]_vars

\* A recursive call with depth 0 has returned black after the calls before it
\* scattered.
C3_Witness ==
    /\ r_pc = "trace"
    /\ Len(rc_stack) > 1
    /\ InnerFrame.depth = 0
    /\ InnerFrame.attenuation = None
    /\ rc_ret = Some(Black)
    /\ rc_hits = Len(rc_stack) - 1

RECURSIVE SumColors(_, _)
SumColors(results, n) ==
    IF n = 0 THEN Black
    ELSE LET before == SumColors(results, n - 1)
         IN  <<before[1] + results[n].color[1],
               before[2] + results[n].color[2],
               before[3] + results[n].color[3]>>

\* C4: render emits the header first and then one write_color per pixel in
\* row-major order, image_width * image_height of them in all; the color of
\* each is the sum, from black, of exactly samples_per_pixel ray_color results
\* of that pixel, and is passed with samples_per_pixel as the sample count.
C4_RowMajorSums ==
    /\ r_pc # "ready" =>
          /\ Len(out) >= 1
          /\ out[1].kind = "header"
          /\ out[1].width = unwrap(camera.image_width)
          /\ out[1].height = camera.image_height
          /\ \A k \in 2 .. Len(out) :
                LET e == out[k]
                    W == unwrap(camera.image_width)
                    spp == unwrap(camera.samples_per_pixel)
                IN  /\ e.kind = "write_color"
                    /\ e.j = (k - 2) \div W
                    /\ e.i = (k - 2) % W
                    /\ e.samples_per_pixel = spp
                    /\ Len(e.results) = spp
                    /\ \A n \in 1 .. spp : e.results[n].i = e.i /\ e.results[n].j = e.j
                    /\ e.pixel_color = SumColors(e.results, spp)
    /\ r_pc = "ready" => out = <<>>
    /\ r_pc = "done" => Len(out) = 1 + unwrap(camera.image_width) * camera.image_height

\* An image of two rows and two columns with two samples per pixel is
\* complete, and its last pixel is not black.
C4_Witness ==
    /\ r_pc = "done"
    /\ unwrap(camera.image_width) = 2
    /\ camera.image_height = 2
    /\ unwrap(camera.samples_per_pixel) = 2
    /\ Len(out) = 5
    /\ out[5].pixel_color # Black
    /\ out[5].results[1].color # Black
    /\ out[5].results[2].color # Black

\* lerp(white, skyblue, 0.5 * (unit_dir.y + 1))
SkyGradient(direction) ==
    LET y == fdiv(direction[2], length(direction))
        a == fmul(Fx(1, 2), y + Fx(1, 1))
        b == Fx(1, 1) - a
    IN  <<fmul(Fx(1, 1), b) + fmul(Fx(1, 2), a),
          fmul(Fx(1, 1), b) + fmul(Fx(7, 10), a),
          fmul(Fx(1, 1), b) + fmul(Fx(1, 1), a)>>

SamplesAreSky ==
    \A e \in AllResults :
        /\ e.color = SkyGradient(e.r.dir)
        /\ e.color # Black
        /\ e.scatters = 0

\* C7 as stated: in an empty world every sample is the sky gradient of its
\* ray, never black and without a scatter call, whatever the image size and
\* the configured max_depth.
C7_EmptyWorldIsSky ==
    (objects = <<>> /\ r_pc # "ready") => SamplesAreSky

\* C7, amended: in an empty world rendered with max_depth >= 1 every sample is
\* the sky gradient of its ray, never black and without a scatter call.
C7_EmptyWorldIsSkyWithBudget ==
    (objects = <<>> /\ r_pc # "ready" /\ unwrap(camera.max_depth) >= 1) => SamplesAreSky

\* An empty world is rendered with max_depth >= 1 and two pixels differ.
C7_Witness ==
    /\ objects = <<>>
    /\ r_pc = "done"
    /\ unwrap(camera.max_depth) >= 1
    /\ Len(out) >= 3
    /\ out[2].pixel_color # out[3].pixel_color
    /\ SamplesAreSky

\* ------------------------------------------------ claims about initialize
ConfigFields ==
    {"aspect_ratio", "image_width", "samples_per_pixel", "max_depth", "vfov",
     "look_from", "look_at", "vup", "defocus_angle", "focus_dist"}

\* The defaults the specification states: 1.0, 100, 10, 10, 90 degrees,
\* (0,0,-1), (0,0,0), (0,1,0), 0 degrees, 10.0.
StatedDefaults ==
    [aspect_ratio |-> 1 * Scale, image_width |-> 100, samples_per_pixel |-> 10,
     max_depth |-> 10, vfov |-> 90 * Scale,
     look_from |-> <<0, 0, -Scale>>, look_at |-> <<0, 0, 0>>, vup |-> <<0, Scale, 0>>,
     defocus_angle |-> 0, focus_dist |-> 10 * Scale]

\* C11: after the first initialize every omitted configuration field holds its
\* stated default and every supplied one its supplied value; every further
\* initialize leaves all configuration and derived fields as they were.
C11_InitializeIdempotent ==
    u_call = "initialize" =>
        /\ \A f \in ConfigFields :
              u_ret[f] = IF u_args[1][f] = None THEN <<StatedDefaults[f]>>
                         ELSE u_args[1][f]
        /\ \A k \in 2 .. Len(u_args) : u_ret = u_args[k]

\* initialize has run three times on a camera with some fields omitted and
\* some supplied, and the frame it derived is not the zero frame.
C11_Witness ==
    /\ u_call = "initialize"
    /\ Len(u_args) = 3
    /\ u_args[1].max_depth = None
    /\ u_args[1].image_width = <<3>>
    /\ u_args[1].look_from # None
    /\ u_ret.image_height >= 1
    /\ u_ret.u # <<0, 0, 0>>
    /\ u_ret.pixel_delta_v # <<0, 0, 0>>
    /\ u_ret.defocus_disk_u # <<0, 0, 0>>

\* ------------------------------------------- claims about Dieletric::scatter
\* The rounding of the fixed-point square roots and products of refract.
DirectionTolerance == 5

Undeviated(a, b) == \A k \in 1 .. 3 : Abs(a[k] - b[k]) <= DirectionTolerance

\* C12: Dieletric::scatter with refractive index 1.0 sends the ray on in its
\* incoming unit direction (it refracts with ratio 1 and never reflects), for
\* every incoming direction, front or back face, and every random draw.
C12_IndexOnePassesThrough ==
    (u_call = "Dieletric_scatter" /\ u_args[1].ir = Fx(1, 1)) =>
        /\ u_ret.result # None
        /\ Undeviated(u_ret.result[1].scattered.dir, unit_vector(u_args[2].dir))

\* ------------------------------------------ claims about the path of a ray
Times(a, b) == <<fmul(a[1], b[1]), fmul(a[2], b[2]), fmul(a[3], b[3])>>

\* The color a path ends in.
TerminalColor(e) == IF e.end = "sky" THEN SkyGradient(e.last.dir) ELSE Black

\* att[k] * (att[k+1] * ( ... * (att[n] * terminal))): the product as the
\* returns of the recursion multiply it.
RECURSIVE ProductFrom(_, _, _)
ProductFrom(atts, k, terminal) ==
    IF k > Len(atts) THEN terminal
    ELSE Times(atts[k], ProductFrom(atts, k + 1, terminal))

\* The accumulator of the loop after the first k bounces, from (1,1,1).
RECURSIVE Accumulator(_, _)
Accumulator(atts, k) ==
    IF k = 0 THEN <<Scale, Scale, Scale>>
    ELSE Times(Accumulator(atts, k - 1), atts[k])

\* The two orders of multiplication differ by the rounding of each product.
ProductTolerance == 3

LoopResult(e) == Times(Accumulator(e.atts, Len(e.atts)), TerminalColor(e))

\* C13: the result of ray_color is the product of the attenuations of the
\* bounces that scattered times the terminal color: the sky gradient of the
\* last ray if it misses with budget left, black if the ray is absorbed or
\* the budget is used up; the loop with an accumulator computes the same
\* value, up to the rounding of the products.  (Every sample is in r_results
\* from its return until its pixel is written.)
C13_AttenuationProduct ==
    \A e \in { r_results[n] : n \in 1 .. Len(r_results) } :
        LET left == e.depth - Len(e.atts)
            h == HittableList_hit(objects, e.last, ray_color_interval)
        IN  /\ e.end \in {"sky", "absorbed", "budget"}
            /\ e.end = "budget" <=> left <= 0
            /\ e.end = "sky" <=> (left > 0 /\ h = None)
            /\ e.end = "absorbed" <=> (left > 0 /\ h # None)
            /\ Len(e.atts) = IF e.end = "absorbed" THEN e.scatters - 1 ELSE e.scatters
            /\ e.color = ProductFrom(e.atts, 1, TerminalColor(e))
            /\ \A k \in 1 .. 3 : Abs(e.color[k] - LoopResult(e)[k]) <= ProductTolerance

\* A ray has bounced twice, off surfaces that do not both leave its color as
\* it is, and has then left for the sky.
C13_Witness ==
    \E e \in AllResults :
        /\ e.end = "sky"
        /\ Len(e.atts) >= 2
        /\ \E k \in 1 .. Len(e.atts) : e.atts[k] # <<Scale, Scale, Scale>>
        /\ e.color # Black
        /\ e.color # TerminalColor(e)

\* ------------------------------- claims about the bound of HittableList::hit
Least(S) == CHOOSE x \in S : \A y \in S : x <= y

\* The surfaces whose hit in the caller's interval is at the distance t.
HitAt(t) == { i \in 1 .. Len(objects) : t \in SurfaceHits(objects[i], l_r, l_ray_t) }

\* C14: the intervals HittableList.hit passes to successive surfaces keep the
\* caller's lower bound, start at the caller's upper bound, and their upper
\* bound is the t of the hit the surface before accepted, else unchanged, so
\* it never grows; of several surfaces hit at the same smallest distance the
\* record returned is that of the one added earliest.
C14_BoundShrinksFirstWins ==
    /\ l_pc \in {"loop", "done"} =>
          \A k \in 1 .. Len(l_passed) :
              /\ l_passed[k].min = l_ray_t.min
              /\ l_passed[k].max <= l_ray_t.max
              /\ k = 1 => l_passed[k].max = l_ray_t.max
              /\ k > 1 =>
                    LET accepted == SurfaceHits(objects[k - 1], l_r, l_passed[k - 1])
                    IN  /\ l_passed[k].max <= l_passed[k - 1].max
                        /\ l_passed[k].max = IF accepted # {} THEN Least(accepted)
                                             ELSE l_passed[k - 1].max
    /\ (l_pc = "done" /\ l_result # None) =>
          /\ ListHits # {}
          /\ LET first == Least(HitAt(Least(ListHits)))
             IN  l_result = Sphere_hit(objects[first], l_r, l_ray_t)

\* Three surfaces were visited: the first is hit farther away, the second and
\* the third, of different materials, are hit at the same smallest distance,
\* and the record is the second's.
C14_Witness ==
    /\ l_pc = "done"
    /\ l_result # None
    /\ Len(objects) = 3
    /\ HitAt(Least(ListHits)) = {2, 3}
    /\ SurfaceHits(objects[1], l_r, l_ray_t) # {}
    /\ objects[2].material # objects[3].material
    /\ l_result[1].mat = objects[2].material
    /\ l_passed[3].max < l_passed[2].max
    /\ l_passed[2].max < l_passed[1].max

====
